---- MODULE Spec2Model ----
(***************************************************************************)
(* A model of rez's uv importer, src/src/rez/uv.py: the installer driver   *)
(* uv_install_package (interpreter lookup, compile/sync/install            *)
(* subprocesses, the per-distribution assembly loop, scratch directory     *)
(* cleanup), the path remapper get_mapping and the helpers they call.      *)
(*                                                                         *)
(* A Python str is modelled as the sequence of its characters, so that     *)
(* split, startswith, endswith, shlex.quote, os.path.join and              *)
(* os.path.normpath are computed as the library computes them.  A Python   *)
(* list is a sequence; a dict is a sequence of <<key, value>> pairs in     *)
(* insertion order.                                                        *)
(***************************************************************************)
EXTENDS Integers, Sequences, FiniteSets, TLC

(***************************************************************************)
(* String literals of the source.                                          *)
(***************************************************************************)
NO_DEPS == <<"-", "-", "n", "o", "-", "d", "e", "p", "s">>
OPT_T == <<"-", "t">>
OPT_TARGET == <<"-", "-", "t", "a", "r", "g", "e", "t">>
OPT_VERBOSE == <<"-", "v">>
TARGET_EQ == <<"-", "-", "t", "a", "r", "g", "e", "t", "=">>
OVERRIDE_EQ == <<"-", "-", "o", "v", "e", "r", "r", "i", "d", "e", "=">>
PYTHON_VERSION_EQ == <<"-", "-", "p", "y", "t", "h", "o", "n", "-", "v", "e", "r", "s", "i", "o", "n", "=">>
UV_LOCK == <<"/", "u", "v", ".", "l", "o", "c", "k">>
PIP == <<"p", "i", "p">>
INSTALL == <<"i", "n", "s", "t", "a", "l", "l">>
COMPILE == <<"c", "o", "m", "p", "i", "l", "e">>
SYNC == <<"s", "y", "n", "c">>
PYPROJECT == <<"p", "y", "p", "r", "o", "j", "e", "c", "t", ".", "t", "o", "m", "l">>
OPT_O == <<"-", "o">>
UPGRADE == <<"-", "-", "u", "p", "g", "r", "a", "d", "e">>
PRERELEASE == <<"-", "-", "p", "r", "e", "r", "e", "l", "e", "a", "s", "e", "=", "e", "x", "p", "l", "i", "c", "i", "t">>
EMIT_INDEX_URL == <<"-", "-", "e", "m", "i", "t", "-", "i", "n", "d", "e", "x", "-", "u", "r", "l">>
INDEX_STRATEGY == <<"-", "-", "i", "n", "d", "e", "x", "-", "s", "t", "r", "a", "t", "e", "g", "y", "=", "u", "n", "s", "a", "f", "e", "-", "b", "e", "s", "t", "-", "m", "a", "t", "c", "h">>
SYSTEM == <<"-", "-", "s", "y", "s", "t", "e", "m">>
PYTHON_PREFERENCE == <<"-", "-", "p", "y", "t", "h", "o", "n", "-", "p", "r", "e", "f", "e", "r", "e", "n", "c", "e", "=", "s", "y", "s", "t", "e", "m">>
NO_PYTHON_DOWNLOADS == <<"-", "-", "n", "o", "-", "p", "y", "t", "h", "o", "n", "-", "d", "o", "w", "n", "l", "o", "a", "d", "s">>
OPT_COMPILE == <<"-", "-", "c", "o", "m", "p", "i", "l", "e">>
NONE_STR == <<"N", "o", "n", "e">>
BIN == <<"b", "i", "n">>
PYTHON == <<"p", "y", "t", "h", "o", "n">>
DIST_INFO == <<".", "d", "i", "s", "t", "-", "i", "n", "f", "o">>
PARDIR == <<".", ".">>
CURDIR == <<".">>
SEP == <<"/">>
MSG_FAILED == <<"F", "a", "i", "l", "e", "d", " ", "t", "o", " ", "d", "o", "w", "n", "l", "o", "a", "d", " ", "s", "o", "u", "r", "c", "e", " ", "w", "i", "t", "h", " ", "u", "v", ":", " ">>
MSG_NO_PYTHON == <<"F", "o", "u", "n", "d", " ", "n", "o", " ", "p", "y", "t", "h", "o", "n", " ", "r", "e", "z", " ", "p", "a", "c", "k", "a", "g", "e", ".">>
MSG_NO_UV == <<"C", "a", "n", "t", " ", "f", "i", "n", "d", " ", "u", "v", ".", "e", "x", "e", " ", "i", "n", " ", "P", "A", "T", "H">>
PYTHONPATH_CMD == <<"e", "n", "v", ".", "P", "Y", "T", "H", "O", "N", "P", "A", "T", "H", ".", "a", "p", "p", "e", "n", "d", "(", "'", "{", "r", "o", "o", "t", "}", "/", "p", "y", "t", "h", "o", "n", "'", ")">>
PATH_CMD == <<"e", "n", "v", ".", "P", "A", "T", "H", ".", "a", "p", "p", "e", "n", "d", "(", "'", "{", "r", "o", "o", "t", "}", "/", "b", "i", "n", "'", ")">>
SUFFIX_REZ == <<"-", "r", "e", "z">>
PREFIX_UV == <<"u", "v", "-">>
DASH == <<"-">>
TMP == <<"/", "t", "m", "p", "/">>

\* errno.EDESTADDRREQ, the first argument of the IOError of get_mapping
EDESTADDRREQ == 89

(***************************************************************************)
(* Bounds of the model.                                                    *)
(***************************************************************************)
\* longest extra-argument list the caller passes
MaxArgs == 3
\* number of calls of uv_install_package in one behaviour
MaxRuns == 2
\* longest list of installed files of a distribution (assembly model)
MaxFiles == 2

(***************************************************************************)
(* str and list primitives.                                                *)
(***************************************************************************)
RECURSIVE Join(_, _)
\* sep.join(parts)
Join(sep, parts) ==
    IF parts = <<>> THEN <<>>
    ELSE IF Len(parts) = 1 THEN parts[1]
    ELSE parts[1] \o sep \o Join(sep, Tail(parts))

\* s.startswith(p)
StartsWith(s, p) == Len(s) >= Len(p) /\ SubSeq(s, 1, Len(p)) = p

\* s.endswith(p)
EndsWith(s, p) == Len(s) >= Len(p) /\ SubSeq(s, Len(s) - Len(p) + 1, Len(s)) = p

\* index of the first c in s, 0 when there is none
IndexOf(s, c) ==
    IF \E i \in 1..Len(s) : s[i] = c
    THEN CHOOSE i \in 1..Len(s) : s[i] = c /\ \A j \in 1..(i - 1) : s[j] # c
    ELSE 0

\* s.rfind(c) + 1: index of the last c in s, 0 when there is none
LastIndexOf(s, c) ==
    IF \E i \in 1..Len(s) : s[i] = c
    THEN CHOOSE i \in 1..Len(s) : s[i] = c /\ \A j \in (i + 1)..Len(s) : s[j] # c
    ELSE 0

RECURSIVE Split(_, _)
\* s.split(c) for a one-character separator c
Split(s, c) ==
    LET i == IndexOf(s, c)
    IN  IF i = 0 THEN <<s>>
        ELSE <<SubSeq(s, 1, i - 1)>> \o Split(SubSeq(s, i + 1, Len(s)), c)

\* x in lst
Contains(lst, x) == \E i \in 1..Len(lst) : lst[i] = x

\* lst after lst.remove(x): the first occurrence of x is deleted
ListRemove(lst, x) ==
    LET i == IndexOf(lst, x)
    IN  SubSeq(lst, 1, i - 1) \o SubSeq(lst, i + 1, Len(lst))

RECURSIVE RStrip(_, _)
\* s.rstrip(c)
RStrip(s, c) ==
    IF s # <<>> /\ s[Len(s)] = c THEN RStrip(SubSeq(s, 1, Len(s) - 1), c) ELSE s

\* the characters shlex.quote leaves alone: [\w@%+=:,./-]
SafeChars ==
    {"a", "b", "c", "d", "e", "f", "g", "h", "i", "j", "k", "l", "m",
     "n", "o", "p", "q", "r", "s", "t", "u", "v", "w", "x", "y", "z",
     "A", "B", "C", "D", "E", "F", "G", "H", "I", "J", "K", "L", "M",
     "N", "O", "P", "Q", "R", "S", "T", "U", "V", "W", "X", "Y", "Z",
     "0", "1", "2", "3", "4", "5", "6", "7", "8", "9", "_",
     "@", "%", "+", "=", ":", ",", ".", "/", "-"}

RECURSIVE EscapeQuotes(_)
\* s.replace("'", "'\"'\"'")
EscapeQuotes(s) ==
    IF s = <<>> THEN <<>>
    ELSE (IF s[1] = "'" THEN <<"'", "\"", "'", "\"", "'">> ELSE <<s[1]>>)
         \o EscapeQuotes(Tail(s))

\* shlex.quote(s)
quote(s) ==
    IF s = <<>> THEN <<"'", "'">>
    ELSE IF \A i \in 1..Len(s) : s[i] \in SafeChars THEN s
    ELSE <<"'">> \o EscapeQuotes(s) \o <<"'">>

\* [quote(x) for x in command]
QuoteAll(command) == [i \in 1..Len(command) |-> quote(command[i])]

(***************************************************************************)
(* os.path (posixpath).                                                    *)
(***************************************************************************)
\* os.path.join(a, b)
PathJoin(a, b) ==
    IF StartsWith(b, SEP) THEN b
    ELSE IF a = <<>> \/ EndsWith(a, SEP) THEN a \o b
    ELSE a \o SEP \o b

\* os.path.split(p): <<head, tail>>
PathSplit(p) ==
    LET i == LastIndexOf(p, "/")
        head == SubSeq(p, 1, i)
        tail == SubSeq(p, i + 1, Len(p))
    IN  <<IF head # <<>> /\ RStrip(head, "/") # <<>> THEN RStrip(head, "/") ELSE head,
          tail>>

RECURSIVE NormComps(_, _, _)
\* the component loop of os.path.normpath
NormComps(comps, new_comps, initial_slashes) ==
    IF comps = <<>> THEN new_comps
    ELSE LET comp == Head(comps) IN
         IF comp = <<>> \/ comp = CURDIR
         THEN NormComps(Tail(comps), new_comps, initial_slashes)
         ELSE IF \/ comp # PARDIR
                 \/ (initial_slashes = 0 /\ new_comps = <<>>)
                 \/ (new_comps # <<>> /\ new_comps[Len(new_comps)] = PARDIR)
         THEN NormComps(Tail(comps), Append(new_comps, comp), initial_slashes)
         ELSE IF new_comps # <<>>
         THEN NormComps(Tail(comps), SubSeq(new_comps, 1, Len(new_comps) - 1),
                        initial_slashes)
         ELSE NormComps(Tail(comps), new_comps, initial_slashes)

\* os.path.normpath(path)
normpath(path) ==
    IF path = <<>> THEN CURDIR
    ELSE LET initial_slashes ==
                 IF ~StartsWith(path, SEP) THEN 0
                 ELSE IF StartsWith(path, SEP \o SEP) /\ ~StartsWith(path, SEP \o SEP \o SEP)
                      THEN 2 ELSE 1
             joined == Join(SEP, NormComps(Split(path, "/"), <<>>, initial_slashes))
             full == (IF initial_slashes = 2 THEN SEP \o SEP
                      ELSE IF initial_slashes = 1 THEN SEP ELSE <<>>) \o joined
         IN  IF full = <<>> THEN CURDIR ELSE full
UV_EXE == <<"/", "b", "i", "n", "/", "u", "v">>
V_3_9 == <<"3", ".", "9">>
V_3_7 == <<"3", ".", "7">>
V_3_9_7 == <<"3", ".", "9", ".", "7">>
SRC_PKG == <<"p", "k", "g">>
SRC_SPACED == <<"m", "y", " ", "p", "k", "g">>
SRC_PROJ == <<"p", "r", "o", "j">>
TARGET_O == <<"-", "-", "t", "a", "r", "g", "e", "t", "=", "/", "o">>
DOT == <<".">>
F_BIN_TOOL == <<"b", "i", "n", "/", "t", "o", "o", "l">>
F_BIN_SUB == <<"b", "i", "n", "/", "s", "u", "b", "/", "t">>
F_BIN_FILE == <<"b", "i", "n">>
F_PKG_INIT == <<"p", "k", "g", "/", "_", "_", "i", "n", "i", "t", "_", "_", ".", "p", "y">>
F_RECORD == <<"p", "k", "g", "-", "1", ".", "0", ".", "d", "i", "s", "t", "-", "i", "n", "f", "o", "/", "R", "E", "C", "O", "R", "D">>
F_UP_BIN == <<".", ".", "/", ".", ".", "/", "b", "i", "n", "/", "t", "o", "o", "l">>
F_UP_LIB == <<".", ".", "/", ".", ".", "/", "l", "i", "b", "/", "p", "y", "t", "h", "o", "n", "/", "m", ".", "p", "y">>
F_UP_SHARE == <<".", ".", "/", "s", "h", "a", "r", "e", "/", "d", "o", "c">>
F_DOT_BIN == <<".", "/", "b", "i", "n", "/", "t", "o", "o", "l">>
F_PKG_UP == <<"p", "k", "g", "/", ".", ".", "/", "b", "i", "n", "/", "t", "2">>
F_BINX == <<"b", "i", "n", "x", "/", "y">>
F_PKG_BIN == <<"p", "k", "g", "/", "b", "i", "n", "/", "t", "3">>
UP2 == <<".", ".", "/", ".", ".", "/">>
BIN_SEP == <<"b", "i", "n", "/">>
LIB_PYTHON_SEP == <<"l", "i", "b", "/", "p", "y", "t", "h", "o", "n", "/">>
PYTHON_SEP == <<"p", "y", "t", "h", "o", "n", "/">>
MISC_SEP == <<"m", "i", "s", "c", "/">>
N_PKG == <<"p", "k", "g">>
N_DEP == <<"d", "e", "p">>
N_BAD == <<"b", "a", "d">>
VER_1_0 == <<"1", ".", "0">>
NV_PKG == <<"p", "k", "g", " ", "(", "1", ".", "0", ")">>
NV_DEP == <<"d", "e", "p", " ", "(", "1", ".", "0", ")">>
NV_BAD == <<"b", "a", "d", " ", "(", "1", ".", "0", ")">>
HOME_PAGE == <<"H", "o", "m", "e", " ", "P", "a", "g", "e">>
SOURCE_CODE == <<"S", "o", "u", "r", "c", "e", " ", "C", "o", "d", "e">>
SUMMARY == <<"a", " ", "p", "a", "c", "k", "a", "g", "e">>
URL == <<"h", "t", "t", "p", ":", "/", "/", "x">>
AUTHOR == <<"j", "o">>
EMAIL == <<"j", "o", "@", "x">>
R_PYTHON == <<"p", "y", "t", "h", "o", "n">>

(***************************************************************************)
(* Exceptions and config.pip_install_remaps.                               *)
(*                                                                         *)
(* A remap rule is [record_path, pip_install, rez_install].  record_path   *)
(* [lit, group] stands for the regular expression made of ^, the escaped   *)
(* literal lit, and one capturing group holding the escaped literal group  *)
(* followed by dot-star, the form of the rules rez ships; a rewrite [pre]  *)
(* stands for the replacement template made of pre and backreference 1.    *)
(***************************************************************************)
NoError == [type |-> "None", msg |-> <<>>, errno |-> 0]

Exc(type, msg) == [type |-> type, msg |-> msg, errno |-> 0]

\* re.search(pattern, s) is not None
re_search(pattern, s) == StartsWith(s, pattern.lit \o pattern.group)

\* re.sub(pattern, repl, s): the match runs from the start of s to its end
re_sub(pattern, repl, s) ==
    IF re_search(pattern, s)
    THEN repl.pre \o SubSeq(s, Len(pattern.lit) + 1, Len(s))
    ELSE s

\* index of the last rule that matches, 0 when none does
LastMatch(remaps, rel_src) ==
    LET m == {i \in 1..Len(remaps) : re_search(remaps[i].record_path, rel_src)}
    IN  IF m = {} THEN 0 ELSE CHOOSE i \in m : \A j \in m : j <= i

\* the loop of get_mapping over config.pip_install_remaps: the index of the
\* rule at which it returns, 0 when it runs to the end
FirstMatch(remaps, rel_src) ==
    LET m == {i \in 1..Len(remaps) : re_search(remaps[i].record_path, rel_src)}
    IN  IF m = {} THEN 0 ELSE CHOOSE i \in m : \A j \in m : i <= j

\* rel_src.split(os.sep)[0]
TopDir(rel_src) == Split(rel_src, "/")[1]

\* what get_mapping returns: the pair, or the exception it raises; tried is
\* the number of remap rules it has searched
Mapped(src, dst, tried) ==
    [raised |-> NoError, src |-> src, dst |-> dst, tried |-> tried]

\* get_mapping testing rel_src.startswith("bin") in place of topdir == "bin"
get_mapping_startswith(rel_src, remaps) ==
    LET topdir == TopDir(rel_src) IN
    IF StartsWith(rel_src, BIN) THEN Mapped(rel_src, rel_src, 0)
    ELSE IF EndsWith(topdir, DIST_INFO)
    THEN Mapped(rel_src, PathJoin(PYTHON, rel_src), 0)
    ELSE IF topdir = PARDIR
    THEN LET i == FirstMatch(remaps, rel_src) IN
         IF i # 0
         THEN Mapped(re_sub(remaps[i].record_path, remaps[i].pip_install, rel_src),
                     re_sub(remaps[i].record_path, remaps[i].rez_install, rel_src),
                     i)
         ELSE [raised |-> [type |-> "IOError", msg |-> rel_src, errno |-> EDESTADDRREQ],
               src |-> <<>>, dst |-> <<>>, tried |-> Len(remaps)]
    ELSE Mapped(rel_src, PathJoin(PYTHON, rel_src), 0)

\* get_mapping(rel_src): what it returns or raises, given
\* config.pip_install_remaps
get_mapping(rel_src, remaps) ==
    LET topdir == TopDir(rel_src) IN
    IF topdir = BIN THEN Mapped(rel_src, rel_src, 0)
    ELSE IF EndsWith(topdir, DIST_INFO)
    THEN Mapped(rel_src, PathJoin(PYTHON, rel_src), 0)
    ELSE IF topdir = PARDIR
    THEN LET i == FirstMatch(remaps, rel_src) IN
         IF i # 0
         THEN Mapped(re_sub(remaps[i].record_path, remaps[i].pip_install, rel_src),
                     re_sub(remaps[i].record_path, remaps[i].rez_install, rel_src),
                     i)
         ELSE [raised |-> [type |-> "IOError", msg |-> rel_src, errno |-> EDESTADDRREQ],
               src |-> <<>>, dst |-> <<>>, tried |-> Len(remaps)]
    ELSE Mapped(rel_src, PathJoin(PYTHON, rel_src), 0)

(***************************************************************************)
(* dict, in insertion order.                                               *)
(***************************************************************************)
\* d[k] = v
DictSet(d, k, v) ==
    IF \E i \in 1..Len(d) : d[i][1] = k
    THEN [i \in 1..Len(d) |-> IF d[i][1] = k THEN <<k, v>> ELSE d[i]]
    ELSE Append(d, <<k, v>>)

\* list(d.values())
DictValues(d) == [i \in 1..Len(d) |-> d[i][2]]

\* os.path.exists(p), absent being the paths the installer did not place
PathExists(absent, p) == normpath(p) \notin absent

RECURSIVE FilesLoop(_, _, _, _, _, _)
\* the loop of _get_distribution_files_mapping over list_installed_files():
\* the dict built, the exception that ended it, and the get_mapping calls made
FilesLoop(files, targetdir, remaps, absent, result, calls) ==
    IF files = <<>> THEN [raised |-> NoError, result |-> result, calls |-> calls]
    ELSE LET rel_src_orig == normpath(Head(files))
             m == get_mapping(rel_src_orig, remaps)
             calls2 == Append(calls, [rel_src |-> rel_src_orig, ret |-> m])
         IN  IF m.raised # NoError
             THEN [raised |-> m.raised, result |-> <<>>, calls |-> calls2]
             ELSE IF ~PathExists(absent, PathJoin(targetdir, m.src))
             THEN FilesLoop(Tail(files), targetdir, remaps, absent, result, calls2)
             ELSE FilesLoop(Tail(files), targetdir, remaps, absent,
                            DictSet(result, m.src, m.dst), calls2)

_get_distribution_files_mapping(files, targetdir, remaps, absent) ==
    FilesLoop(files, targetdir, remaps, absent, <<>>, <<>>)

\* the tools list with every mapped file's name taken as a tool
ToolsOfAll(src_dst_lut) ==
    [i \in 1..Len(src_dst_lut) |-> PathSplit(src_dst_lut[i][2])[2]]

RECURSIVE ToolsLoop(_)
ToolsLoop(values) ==
    IF values = <<>> THEN <<>>
    ELSE LET sp == PathSplit(Head(values))
         IN  (IF sp[1] = BIN THEN <<sp[2]>> ELSE <<>>) \o ToolsLoop(Tail(values))

\* the tools list uv_install_package builds from src_dst_lut.values()
Tools(src_dst_lut) == ToolsLoop(DictValues(src_dst_lut))

\* the commands list of uv_install_package
Commands(tools) ==
    <<PYTHONPATH_CMD>> \o (IF tools # <<>> THEN <<PATH_CMD>> ELSE <<>>)

(***************************************************************************)
(* The subprocess runner and the command lines of uv_install_package.      *)
(***************************************************************************)
\* _option_present(opts, *args)
_option_present(opts, optargs) ==
    \E i \in 1..Len(opts) : \E j \in 1..Len(optargs) :
        opts[i] = optargs[j] \/ StartsWith(opts[i], optargs[j] \o <<"=">>)

\* ' '.join(quote(x) for x in command)
CmdStr(command) == Join(<<" ">>, QuoteAll(command))

\* _cmd raising with the command line joined but not quoted
_cmd_unquoted(command, returncode) ==
    IF returncode # 0
    THEN Exc("BuildError", MSG_FAILED \o Join(<<" ">>, command))
    ELSE NoError

\* _cmd(context, command): the exception it raises for the exit code
_cmd(command, returncode) ==
    IF returncode # 0
    THEN Exc("BuildError", MSG_FAILED \o CmdStr(command))
    ELSE NoError

\* f"{python_version}" of the python_version argument (None prints as None)
FormatVersion(a) == IF a.python_version_given THEN a.python_version ELSE NONE_STR

\* the mode-driven flag of compile_cmd and install_cmd
ModeFlag(mode, _extra_args) ==
    IF mode = "no_deps" /\ ~Contains(_extra_args, NO_DEPS) THEN <<NO_DEPS>> ELSE <<>>

\* install_cmd as first built
InstallCmdBase(uv_exe, a) ==
    <<uv_exe, PIP, INSTALL, PRERELEASE, INDEX_STRATEGY, SYSTEM,
      PYTHON_VERSION_EQ \o FormatVersion(a), PYTHON_PREFERENCE,
      NO_PYTHON_DOWNLOADS, OPT_COMPILE>>

\* compile_cmd when it is run
CompileCmd(uv_exe, a, targetpath, _extra_args) ==
    <<uv_exe, PIP, COMPILE, PYPROJECT, OPT_O, targetpath \o UV_LOCK, UPGRADE,
      PRERELEASE, EMIT_INDEX_URL, INDEX_STRATEGY, SYSTEM,
      PYTHON_VERSION_EQ \o FormatVersion(a), PYTHON_PREFERENCE,
      NO_PYTHON_DOWNLOADS>>
    \o ModeFlag(a.mode, _extra_args) \o _extra_args

\* sync_cmd when it is run
SyncCmd(uv_exe, a, targetpath, _extra_args) ==
    <<uv_exe, PIP, SYNC, INDEX_STRATEGY, SYSTEM,
      PYTHON_VERSION_EQ \o FormatVersion(a), PYTHON_PREFERENCE,
      NO_PYTHON_DOWNLOADS, OPT_COMPILE, TARGET_EQ \o targetpath>>
    \o _extra_args \o <<targetpath \o UV_LOCK>>

\* install_cmd when it is run
InstallCmd(base, isdir, a, targetpath, _extra_args) ==
    base
    \o (IF isdir THEN <<OVERRIDE_EQ \o targetpath \o UV_LOCK>> ELSE <<>>)
    \o ModeFlag(a.mode, _extra_args)
    \o (IF ~_option_present(_extra_args, <<OPT_T, OPT_TARGET>>)
        THEN <<TARGET_EQ \o targetpath>> ELSE <<>>)
    \o _extra_args \o <<a.source_name>>

(***************************************************************************)
(* Interpreter lookup.                                                     *)
(***************************************************************************)
\* Version.trim(2) as a string
Trim2(v) ==
    LET toks == Split(v, ".")
    IN  Join(DOT, SubSeq(toks, 1, IF Len(toks) < 2 THEN Len(toks) ELSE 2))

\* find_python_from_context(python_version) over the registry's python
\* versions (ascending): the version of the resolved python package, the
\* BuildError it raises, or None (found FALSE) when the resolve fails
find_python_from_context(a, registry) ==
    IF ~a.python_version_given /\ registry = <<>>
    THEN [raised |-> Exc("BuildError", MSG_NO_PYTHON), found |-> FALSE, version |-> <<>>]
    ELSE LET mm == IF a.python_version_given THEN Trim2(a.python_version)
                   ELSE Trim2(registry[Len(registry)])
             hits == {i \in 1..Len(registry) : Trim2(registry[i]) = mm}
         IN  IF hits = {}
             THEN [raised |-> NoError, found |-> FALSE, version |-> <<>>]
             ELSE [raised |-> NoError, found |-> TRUE,
                   version |-> registry[CHOOSE i \in hits : \A j \in hits : j <= i]]

\* mkdtemp(suffix="-rez", prefix=f"uv-{py_ver}-"): a name no directory has
mkdtemp(py_ver, existing) ==
    LET name(n) == TMP \o PREFIX_UV \o py_ver \o DASH \o [i \in 1..n |-> "x"] \o SUFFIX_REZ
        n == CHOOSE k \in 1..(Cardinality(existing) + 1) :
                 /\ name(k) \notin existing
                 /\ \A j \in 1..(k - 1) : name(j) \in existing
    IN  name(n)

\* _extra_args = extra_args or config.pip_extra_args or []: which list object
EffectiveList(h, extra_args) ==
    IF extra_args = "caller" /\ h.caller # <<>> THEN "caller"
    ELSE IF h.config # <<>> THEN "config"
    ELSE "fresh"

\* the list behind a reference
Deref(h, ref) == IF ref = "fresh" THEN <<>> ELSE h[ref]

\* the step after compile when sync is run whatever no_deps is
AfterCompileSync(no_deps) == "sync"

\* the step after a successful compile:  if not no_deps: run sync_cmd
AfterCompile(no_deps) == IF no_deps THEN "install" ELSE "sync"

\* the heap after the list behind ref has lost every "--no-deps"
ExtractAll(h, ref) ==
    IF ref = "fresh" THEN h
    ELSE [h EXCEPT ![ref] = SelectSeq(h[ref], LAMBDA x : x # NO_DEPS)]

\* the heap after  try: _extra_args.remove("--no-deps")
Extract(h, ref) ==
    IF ref # "fresh" /\ Contains(h[ref], NO_DEPS)
    THEN [h EXCEPT ![ref] = ListRemove(h[ref], NO_DEPS)]
    ELSE h

(***************************************************************************)
(* Inputs: call arguments, environments, installer outcomes.               *)
(***************************************************************************)
ListsUpTo(S, n) == UNION {[1..k -> S] : k \in 0..n}

\* source_name values, and those of them that are directories
Sources == {SRC_PKG, SRC_SPACED, SRC_PROJ}

ProjectDirs == {SRC_PROJ}

\* the caller's extra_args list and config.pip_extra_args
CallerLists == ListsUpTo({NO_DEPS, OPT_VERBOSE}, MaxArgs)

ConfigLists == {<<>>, <<TARGET_O, NO_DEPS>>}

\* [python_version_given, python_version]
VersionArgs ==
    {[python_version_given |-> FALSE, python_version |-> <<>>],
     [python_version_given |-> TRUE, python_version |-> V_3_9],
     [python_version_given |-> TRUE, python_version |-> V_3_7]}

\* is uv on PATH, and the python versions of the package registry
Environments ==
    {[uv_on_path |-> TRUE, registry |-> <<V_3_9_7>>],
     [uv_on_path |-> FALSE, registry |-> <<V_3_9_7>>],
     [uv_on_path |-> TRUE, registry |-> <<>>]}

ExitCodes == {0, 1}

Rule(lit, group, pip_pre, rez_pre) ==
    [record_path |-> [lit |-> lit, group |-> group],
     pip_install |-> [pre |-> pip_pre],
     rez_install |-> [pre |-> rez_pre]]

\* ../../bin/* is installed to bin/* and copied to bin/*
BinRule == Rule(UP2, BIN_SEP, <<>>, <<>>)

\* ../../lib/python/* is installed to * and copied to python/*
LibRule == Rule(UP2 \o LIB_PYTHON_SEP, <<>>, <<>>, PYTHON_SEP)

\* ../../* is installed to * and copied to misc/*
Up2Rule == Rule(UP2, <<>>, <<>>, MISC_SEP)

DefaultRemaps == <<BinRule, LibRule>>

RemapConfigs ==
    {<<>>, DefaultRemaps, <<Up2Rule, BinRule>>, <<BinRule, Up2Rule>>}

\* paths of RECORD rows
RecordPaths ==
    {F_BIN_TOOL, F_BIN_SUB, F_BIN_FILE, F_PKG_INIT, F_RECORD, F_UP_BIN,
     F_UP_LIB, F_UP_SHARE, F_DOT_BIN, F_PKG_UP, F_BINX, F_PKG_BIN}

NoMetadata ==
    [summary |-> <<>>, home_page |-> <<>>, download_url |-> <<>>,
     author |-> <<>>, author_email |-> <<>>]

FullMetadata ==
    [summary |-> SUMMARY, home_page |-> URL, download_url |-> URL,
     author |-> AUTHOR, author_email |-> EMAIL]

\* An installed distribution with what its collaborators answer for it:
\* files are its RECORD rows, missing the files the installer did not
\* place, rez_name the translated name, requires and variant_requires the
\* translated requirements, already whether its variant is in the package
\* store, req_raises and pkg_raises whether get_rez_requirements and
\* make_package raise.
Distribution(name, nv, files, missing, md, requires, already, req_raises, pkg_raises) ==
    [name |-> name, name_and_version |-> nv, version |-> VER_1_0,
     files |-> files, missing |-> missing, metadata |-> md,
     requires |-> requires, variant_requires |-> <<R_PYTHON \o DASH \o V_3_9>>,
     is_pure_python |-> TRUE, already |-> already,
     req_raises |-> req_raises, pkg_raises |-> pkg_raises]

GoodDist ==
    Distribution(N_PKG, NV_PKG, <<F_BIN_TOOL, F_PKG_INIT, F_RECORD>>, {},
                 FullMetadata, <<N_DEP>>, FALSE, FALSE, FALSE)

DepDist ==
    Distribution(N_DEP, NV_DEP, <<F_UP_BIN, F_PKG_INIT>>, {F_PKG_INIT},
                 NoMetadata, <<>>, TRUE, FALSE, FALSE)

BadPathDist ==
    Distribution(N_BAD, NV_BAD, <<F_PKG_INIT, F_UP_SHARE>>, {},
                 NoMetadata, <<>>, FALSE, FALSE, FALSE)

BadReqDist ==
    Distribution(N_BAD, NV_BAD, <<F_PKG_INIT>>, {},
                 NoMetadata, <<>>, FALSE, TRUE, FALSE)

BadPkgDist ==
    Distribution(N_BAD, NV_BAD, <<F_PKG_INIT>>, {},
                 NoMetadata, <<>>, FALSE, FALSE, TRUE)

\* what the installer leaves in the scratch directory (driver runs)
DriverOutcomes ==
    {<<>>, <<GoodDist, DepDist>>, <<BadPathDist, GoodDist>>,
     <<GoodDist, BadReqDist>>, <<BadPkgDist, GoodDist>>}

\* what the installer leaves in the scratch directory (assembly runs)
AssemblyOutcomes ==
    {<<Distribution(N_PKG, NV_PKG, files, missing, NoMetadata, <<>>, FALSE, FALSE, FALSE)>> :
        files \in ListsUpTo(RecordPaths, MaxFiles),
        missing \in {{}, {F_BIN_TOOL}}}
    \cup {<<GoodDist>>}

(***************************************************************************)
(* State.                                                                  *)
(***************************************************************************)
VARIABLES
    profile,            \* the inputs the behaviour draws: "driver", "assembly", "rerun"
    heap,               \* the list objects: caller's extra_args, config.pip_extra_args
    remaps,             \* config.pip_install_remaps
    dirs,               \* the scratch directories that exist
    runs,               \* calls of uv_install_package made so far
    pc,                 \* where the current call is
    args,               \* the arguments and environment of the current call
    locals,             \* its local variables
    procs,              \* the subprocesses it has run: [kind, command, returncode]
    raised,             \* the exception that ended it
    result,             \* what it returned
    distributions,      \* the distributions still to process
    enumerated,         \* has it listed the distributions
    transactions,       \* make_package transactions it has opened
    packages,           \* packages it has committed
    installed_variants,
    skipped_variants,
    calls,              \* the get_mapping calls it has made: [dist, rel_src, ret]
    prev                \* the list the previous call worked on, as that call found it

vars ==
    <<profile, heap, remaps, dirs, runs, pc, args, locals, procs, raised, result,
      distributions, enumerated, transactions, packages, installed_variants,
      skipped_variants, calls, prev>>

NoArgs ==
    [source_name |-> <<>>, python_version_given |-> FALSE, python_version |-> <<>>,
     mode |-> "min_deps", extra_args |-> "None", isdir |-> FALSE,
     uv_on_path |-> FALSE, registry |-> <<>>]

NoLocals ==
    [uv_exe |-> <<>>, py_ver |-> <<>>, targetpath |-> <<>>, _extra_args |-> "fresh",
     entry |-> <<>>, no_deps |-> FALSE, install_cmd |-> <<>>]

NoResult == [returned |-> FALSE, installed |-> <<>>, skipped |-> <<>>]

Init ==
    /\ profile \in {"driver", "assembly", "rerun"}
    /\ heap \in [caller : IF profile = "assembly" THEN {<<>>} ELSE CallerLists,
                 config : IF profile = "assembly" THEN {<<>>} ELSE ConfigLists]
    /\ remaps \in IF profile = "assembly" THEN RemapConfigs ELSE {DefaultRemaps}
    /\ dirs = {}
    /\ runs = 0
    /\ pc = "idle"
    /\ args = NoArgs
    /\ locals = NoLocals
    /\ procs = <<>>
    /\ raised = NoError
    /\ result = NoResult
    /\ distributions = <<>>
    /\ enumerated = FALSE
    /\ transactions = 0
    /\ packages = <<>>
    /\ installed_variants = <<>>
    /\ skipped_variants = <<>>
    /\ calls = <<>>
    /\ prev = [ref |-> "none", entry |-> <<>>]

\* the arguments and environments a call is made with
CallInputs ==
    IF profile = "driver"
    THEN {[source_name |-> s, python_version_given |-> v.python_version_given,
           python_version |-> v.python_version, mode |-> m, extra_args |-> x,
           isdir |-> s \in ProjectDirs, uv_on_path |-> e.uv_on_path,
           registry |-> e.registry] :
             s \in Sources, v \in VersionArgs, m \in {"no_deps", "min_deps"},
             x \in {"None", "caller"}, e \in Environments}
    ELSE IF profile = "rerun"
    THEN {[source_name |-> s, python_version_given |-> TRUE,
           python_version |-> V_3_9, mode |-> m, extra_args |-> x,
           isdir |-> s \in ProjectDirs, uv_on_path |-> TRUE,
           registry |-> <<V_3_9_7>>] :
             s \in {SRC_PKG, SRC_PROJ}, m \in {"no_deps", "min_deps"},
             x \in {"None", "caller"}}
    ELSE {[source_name |-> SRC_PROJ, python_version_given |-> TRUE,
           python_version |-> V_3_9, mode |-> "min_deps", extra_args |-> "None",
           isdir |-> TRUE, uv_on_path |-> TRUE, registry |-> <<V_3_9_7>>]}

\* an exception leaves uv_install_package
Raise(e) ==
    /\ raised' = e
    /\ pc' = "raised"

\* the current value of _extra_args
ExtraArgs == Deref(heap, locals._extra_args)

(***************************************************************************)
(* uv_install_package, lines 105-150: from the call to the first           *)
(* subprocess.                                                             *)
(***************************************************************************)
Call ==
    /\ pc \in {"idle", "returned", "raised"}
    /\ runs < MaxRuns
    /\ profile # "rerun" => runs = 0
    /\ \E a \in CallInputs :
        LET context == find_python_from_context(a, a.registry)
            ref == EffectiveList(heap, a.extra_args)
            targetpath == mkdtemp(context.version, dirs)
        IN
        /\ args' = a
        /\ runs' = runs + 1
        /\ procs' = <<>>
        /\ result' = NoResult
        /\ distributions' = <<>>
        /\ enumerated' = FALSE
        /\ transactions' = 0
        /\ packages' = <<>>
        /\ installed_variants' = <<>>
        /\ skipped_variants' = <<>>
        /\ calls' = <<>>
        /\ prev' = IF locals.targetpath = <<>> THEN prev
                   ELSE [ref |-> locals._extra_args, entry |-> locals.entry]
        /\ IF ~a.uv_on_path
           THEN /\ Raise(Exc("RuntimeError", MSG_NO_UV))
                /\ locals' = NoLocals
                /\ UNCHANGED <<heap, dirs>>
           ELSE IF context.raised # NoError
           THEN /\ Raise(context.raised)
                /\ locals' = NoLocals
                /\ UNCHANGED <<heap, dirs>>
           ELSE IF ~context.found
           THEN \* context is None: context.get_resolved_package
                /\ Raise(Exc("AttributeError", <<>>))
                /\ locals' = NoLocals
                /\ UNCHANGED <<heap, dirs>>
           ELSE /\ dirs' = dirs \cup {targetpath}
                /\ heap' = Extract(heap, ref)
                /\ locals' = [uv_exe |-> UV_EXE, py_ver |-> context.version,
                              targetpath |-> targetpath, _extra_args |-> ref,
                              entry |-> Deref(heap, ref),
                              no_deps |-> Contains(Deref(heap, ref), NO_DEPS),
                              install_cmd |-> InstallCmdBase(UV_EXE, a)]
                /\ raised' = NoError
                /\ pc' = IF a.isdir THEN "compile" ELSE "install"
    /\ UNCHANGED <<profile, remaps>>

(***************************************************************************)
(* Lines 152-179: the compile subprocess of a directory source.            *)
(***************************************************************************)
Compile ==
    /\ pc = "compile"
    /\ \E rc \in ExitCodes :
        LET compile_cmd == CompileCmd(locals.uv_exe, args, locals.targetpath, ExtraArgs)
        IN
        /\ procs' = Append(procs, [kind |-> "compile", command |-> compile_cmd,
                                   returncode |-> rc])
        /\ IF _cmd(compile_cmd, rc) # NoError
           THEN Raise(_cmd(compile_cmd, rc))
           ELSE /\ pc' = AfterCompile(locals.no_deps)
                /\ UNCHANGED raised
    /\ UNCHANGED <<profile, heap, remaps, dirs, runs, args, locals, result,
                   distributions, enumerated, transactions, packages,
                   installed_variants, skipped_variants, calls, prev>>

(***************************************************************************)
(* Lines 181-184: the sync subprocess.                                     *)
(***************************************************************************)
Sync ==
    /\ pc = "sync"
    /\ \E rc \in ExitCodes :
        LET sync_cmd == SyncCmd(locals.uv_exe, args, locals.targetpath, ExtraArgs)
        IN
        /\ procs' = Append(procs, [kind |-> "sync", command |-> sync_cmd,
                                   returncode |-> rc])
        /\ IF _cmd(sync_cmd, rc) # NoError
           THEN Raise(_cmd(sync_cmd, rc))
           ELSE /\ pc' = "install"
                /\ UNCHANGED raised
    /\ UNCHANGED <<profile, heap, remaps, dirs, runs, args, locals, result,
                   distributions, enumerated, transactions, packages,
                   installed_variants, skipped_variants, calls, prev>>

(***************************************************************************)
(* Lines 186-207: the install subprocess, then the distributions found in  *)
(* the scratch directory.                                                  *)
(***************************************************************************)
Install ==
    /\ pc = "install"
    /\ \E rc \in ExitCodes :
        LET install_cmd == InstallCmd(locals.install_cmd, args.isdir, args,
                                      locals.targetpath, ExtraArgs)
        IN
        /\ procs' = Append(procs, [kind |-> "install", command |-> install_cmd,
                                   returncode |-> rc])
        /\ locals' = [locals EXCEPT !.install_cmd = install_cmd]
        /\ IF _cmd(install_cmd, rc) # NoError
           THEN /\ Raise(_cmd(install_cmd, rc))
                /\ UNCHANGED <<distributions, enumerated>>
           ELSE /\ \E found \in (IF profile = "driver" THEN DriverOutcomes
                                 ELSE IF profile = "assembly" THEN AssemblyOutcomes
                                 ELSE {<<>>, <<GoodDist>>}) :
                       distributions' = found
                /\ enumerated' = TRUE
                /\ pc' = "loop"
                /\ UNCHANGED raised
    /\ UNCHANGED <<profile, heap, remaps, dirs, runs, args, result,
                   transactions, packages, installed_variants, skipped_variants,
                   calls, prev>>

(***************************************************************************)
(* Lines 229-347: the body of the loop over the distributions.             *)
(***************************************************************************)
\* the paths under targetdir that the installer did not place
Absent(d, targetdir) == {normpath(PathJoin(targetdir, m)) : m \in d.missing}

\* the attributes set on pkg inside the make_package block
Package(d, tools) ==
    LET md == d.metadata
        help_ == (IF md.home_page # <<>> THEN <<<<HOME_PAGE, md.home_page>>>> ELSE <<>>)
                 \o (IF md.download_url # <<>>
                     THEN <<<<SOURCE_CODE, md.download_url>>>> ELSE <<>>)
    IN  [name |-> d.name,
         version |-> d.version,
         description |-> md.summary,
         requires |-> d.requires,
         variants |-> IF d.variant_requires # <<>> THEN <<d.variant_requires>> ELSE <<>>,
         tools |-> tools,
         commands |-> Join(<<"\n">>, Commands(tools)),
         hashed_variants |-> TRUE,
         pip_name |-> d.name_and_version,
         from_pip |-> TRUE,
         is_pure_python |-> d.is_pure_python,
         help |-> help_,
         authors |-> IF md.author = <<>> THEN <<>>
                     ELSE IF md.author_email # <<>>
                     THEN <<md.author \o <<" ">> \o md.author_email>>
                     ELSE <<md.author>>]

ProcessDistribution ==
    /\ pc = "loop"
    /\ distributions # <<>>
    /\ LET d == Head(distributions)
           m == _get_distribution_files_mapping(d.files, locals.targetpath, remaps,
                                                Absent(d, locals.targetpath))
           tools == Tools(m.result)
           variant == [name |-> d.name, version |-> d.version]
       IN
       IF d.req_raises
       THEN \* get_rez_requirements raises
            /\ Raise(Exc("PackageRequestError", d.name_and_version))
            /\ UNCHANGED <<distributions, transactions, packages,
                           installed_variants, skipped_variants, calls>>
       ELSE /\ calls' = calls \o [i \in 1..Len(m.calls) |->
                                     [dist |-> d.name_and_version,
                                      rel_src |-> m.calls[i].rel_src,
                                      ret |-> m.calls[i].ret]]
            /\ IF m.raised # NoError
               THEN /\ Raise(m.raised)
                    /\ UNCHANGED <<distributions, transactions, packages,
                                   installed_variants, skipped_variants>>
               ELSE /\ transactions' = transactions + 1
                    /\ IF d.pkg_raises
                       THEN /\ Raise(Exc("PackageError", d.name_and_version))
                            /\ UNCHANGED <<distributions, packages,
                                           installed_variants, skipped_variants>>
                       ELSE /\ packages' =
                                   Append(packages,
                                          [pkg |-> Package(d, tools),
                                           dist |-> d.name_and_version,
                                           src_dst_lut |-> m.result,
                                           copied |-> IF d.already THEN <<>>
                                                      ELSE DictValues(m.result)])
                            /\ installed_variants' =
                                   installed_variants
                                   \o (IF d.already THEN <<>> ELSE <<variant>>)
                            /\ skipped_variants' =
                                   skipped_variants
                                   \o (IF d.already THEN <<variant>> ELSE <<>>)
                            /\ distributions' = Tail(distributions)
                            /\ UNCHANGED <<pc, raised>>
    /\ UNCHANGED <<profile, heap, remaps, dirs, runs, args, locals, procs, result,
                   enumerated, prev>>

(***************************************************************************)
(* Lines 349-364: cleanup and return.                                      *)
(***************************************************************************)
Finish ==
    /\ pc = "loop"
    /\ distributions = <<>>
    /\ dirs' = dirs \ {locals.targetpath}
    /\ result' = [returned |-> TRUE, installed |-> installed_variants,
                  skipped |-> skipped_variants]
    /\ pc' = "returned"
    /\ UNCHANGED <<profile, heap, remaps, runs, args, locals, procs, raised,
                   distributions, enumerated, transactions, packages,
                   installed_variants, skipped_variants, calls, prev>>

Next == Call \/ Compile \/ Sync \/ Install \/ ProcessDistribution \/ Finish

\* one call of the installer driver, over argument lists, modes, sources,
\* environments, exit codes and installer outcomes
InitDriver == Init /\ profile = "driver"

Spec == InitDriver /\ [][Next]_vars

\* one call, over the files of the distribution and the remap rules
InitAssembly == Init /\ profile = "assembly"

SpecAssembly == InitAssembly /\ [][Next]_vars

\* consecutive calls that share the caller's list and the configuration's
InitRerun == Init /\ profile = "rerun"

SpecRerun == InitRerun /\ [][Next]_vars

(***************************************************************************)
(* Properties.                                                             *)
(***************************************************************************)
\* the subprocesses of the current call of one kind
ProcsOf(kind) == SelectSeq(procs, LAMBDA p : p.kind = kind)

\* the kinds of the subprocesses run, in order
ProcKinds == [i \in 1..Len(procs) |-> procs[i].kind]

\* number of occurrences of x in lst
Count(lst, x) == Cardinality({i \in 1..Len(lst) : lst[i] = x})

IsPrefix(s, t) == Len(s) <= Len(t) /\ SubSeq(t, 1, Len(s)) = s

\* the call has created its scratch directory
ScratchCreated == pc # "idle" /\ locals.targetpath # <<>>

\* lst with its first "--no-deps" deleted, lst itself when it holds none
WithoutFirstNoDeps(lst) ==
    IF \E i \in 1..Len(lst) : lst[i] = NO_DEPS
    THEN LET i == CHOOSE k \in 1..Len(lst) :
                      lst[k] = NO_DEPS /\ \A j \in 1..(k - 1) : lst[j] # NO_DEPS
         IN  [k \in 1..(Len(lst) - 1) |-> IF k < i THEN lst[k] ELSE lst[k + 1]]
    ELSE lst

\* C1: once the scratch directory is created it no longer exists when the
\* run ends, both when the run returns normally and when processing of a
\* distribution raises inside the loop
C1_ScratchRemovedAtEnd ==
    (ScratchCreated /\ (pc = "returned" \/ (pc = "raised" /\ enumerated)))
        => locals.targetpath \notin dirs

\* C2: with mode no_deps and a source that is not a directory, whatever the
\* extra arguments, no compile and no sync is run, one install is run, and
\* its command line holds "--no-deps" exactly once
C2_NoDepsExactlyOnce ==
    (args.mode = "no_deps" /\ ~args.isdir /\ ProcsOf("install") # <<>>)
        => /\ ProcsOf("compile") = <<>>
           /\ ProcsOf("sync") = <<>>
           /\ Len(ProcsOf("install")) = 1
           /\ Count(ProcsOf("install")[1].command, NO_DEPS) = 1

\* C3: when the extra arguments hold "--no-deps", the install command line
\* carries "--no-deps" whatever the mode is, and for a directory source sync
\* is not run
C3_FlagOverridesMode ==
    (/\ ProcsOf("install") # <<>>
     /\ args.extra_args = "caller"
     /\ locals._extra_args = "caller"
     /\ Contains(locals.entry, NO_DEPS))
        => /\ Contains(ProcsOf("install")[1].command, NO_DEPS)
           /\ args.isdir => ProcsOf("sync") = <<>>

\* C4: for a directory source the subprocesses run in the order compile,
\* sync, install, each after the previous one exited with 0; compile writes
\* <scratch>/uv.lock; sync is run iff the extra arguments held no
\* "--no-deps"; install carries --override=<scratch>/uv.lock.  For any other
\* source only install runs, with no override option.
C4_SubprocessOrder ==
    LET lock == locals.targetpath \o UV_LOCK
        order == IF ~args.isdir THEN <<"install">>
                 ELSE IF Contains(locals.entry, NO_DEPS) THEN <<"compile", "install">>
                 ELSE <<"compile", "sync", "install">>
    IN  /\ IsPrefix(ProcKinds, order)
        /\ \A i \in 1..(Len(procs) - 1) : procs[i].returncode = 0
        /\ pc \in {"loop", "returned"} => ProcKinds = order
        /\ \A i \in 1..Len(procs) :
              LET c == procs[i].command IN
              /\ procs[i].kind = "compile" =>
                    \E k \in 1..(Len(c) - 1) : c[k] = OPT_O /\ c[k + 1] = lock
              /\ procs[i].kind = "install" /\ args.isdir =>
                    Contains(c, OVERRIDE_EQ \o lock)
              /\ procs[i].kind = "install" /\ ~args.isdir =>
                    \A k \in 1..Len(c) : ~StartsWith(c[k], OVERRIDE_EQ)

C4_Witness ==
    /\ args.isdir
    /\ pc = "loop"
    /\ ProcKinds = <<"compile", "sync", "install">>
    /\ Contains(procs[3].command, OVERRIDE_EQ \o locals.targetpath \o UV_LOCK)

\* the command line as a shell would need it typed: every argument holding
\* a character outside the shell-safe set is wrapped in single quotes
ShellQuoted(command) ==
    [i \in 1..Len(command) |->
        IF command[i] # <<>> /\ \A k \in 1..Len(command[i]) : command[i][k] \in SafeChars
        THEN command[i]
        ELSE <<"'">> \o EscapeQuotes(command[i]) \o <<"'">>]

\* C5: a subprocess that exits non-zero makes _cmd raise BuildError with the
\* joined, shell-quoted command line; the run aborts: that subprocess is
\* the last one, no distribution is enumerated, no package transaction is
\* opened, nothing is returned, and no command is run twice
C5_SubprocessFailureAborts ==
    \A i \in 1..Len(procs) :
        procs[i].returncode # 0 =>
            /\ i = Len(procs)
            /\ pc = "raised"
            /\ raised.type = "BuildError"
            /\ raised.msg = MSG_FAILED \o Join(<<" ">>, ShellQuoted(procs[i].command))
            /\ ~enumerated
            /\ distributions = <<>>
            /\ transactions = 0
            /\ packages = <<>>
            /\ ~result.returned
            /\ \A j \in 1..Len(procs) : procs[j].kind = procs[i].kind => j = i

C5_Witness ==
    /\ pc = "raised"
    /\ procs # <<>>
    /\ procs[Len(procs)].returncode # 0
    /\ args.source_name = SRC_SPACED
    /\ EndsWith(raised.msg, <<" ", "'">> \o SRC_SPACED \o <<"'">>)

\* the lookup of the current call finds no interpreter package
NoInterpreter ==
    /\ pc # "idle"
    /\ IF args.python_version_given
       THEN \A i \in 1..Len(args.registry) :
                Trim2(args.registry[i]) # Trim2(args.python_version)
       ELSE args.registry = <<>>

\* C6: a call for which no interpreter package matches fails with a
\* BuildError; that failure and the failure for a missing uv executable are
\* raised before any subprocess is run and before the scratch directory is
\* created
C6_NoInterpreterIsBuildError ==
    /\ (NoInterpreter /\ args.uv_on_path) => (pc = "raised" /\ raised.type = "BuildError")
    /\ (NoInterpreter \/ (pc # "idle" /\ ~args.uv_on_path))
          => /\ pc = "raised"
             /\ procs = <<>>
             /\ locals.targetpath = <<>>
             /\ dirs = {}

\* the rules of config.pip_install_remaps whose pattern matches the path
Matching(rel_src) ==
    {i \in 1..Len(remaps) :
        LET p == remaps[i].record_path.lit \o remaps[i].record_path.group
        IN  Len(p) <= Len(rel_src) /\ \A k \in 1..Len(p) : rel_src[k] = p[k]}

\* the rewrite of a rule applied to a path its pattern matches: the
\* template's prefix, then what the pattern's group captured
Rewritten(rule, rewrite, rel_src) ==
    rewrite.pre
    \o [k \in 1..(Len(rel_src) - Len(rule.record_path.lit)) |->
            rel_src[k + Len(rule.record_path.lit)]]

\* the first path segment
FirstSegment(p) ==
    IF \E k \in 1..Len(p) : p[k] = "/"
    THEN SubSeq(p, 1, (CHOOSE k \in 1..Len(p) :
                           p[k] = "/" /\ \A j \in 1..(k - 1) : p[j] # "/") - 1)
    ELSE p

\* C7: for a path whose first segment is "..", the rules are tried in
\* declaration order and the first whose pattern matches gives (source,
\* destination) by its two rewrites, later rules being ignored; when none
\* matches get_mapping raises IOError with errno 89 and the distribution
\* gets no mapping
C7_FirstRuleWins ==
    \A n \in 1..Len(calls) :
        LET c == calls[n] IN
        FirstSegment(c.rel_src) = PARDIR =>
            IF Matching(c.rel_src) # {}
            THEN LET i == CHOOSE k \in Matching(c.rel_src) :
                              \A j \in Matching(c.rel_src) : k <= j
                 IN  /\ c.ret.raised = NoError
                     /\ c.ret.src = Rewritten(remaps[i], remaps[i].pip_install, c.rel_src)
                     /\ c.ret.dst = Rewritten(remaps[i], remaps[i].rez_install, c.rel_src)
                     /\ c.ret.tried = i
            ELSE /\ c.ret.raised.type = "IOError"
                 /\ c.ret.raised.errno = 89
                 /\ c.ret.tried = Len(remaps)
                 /\ n = Len(calls)
                 /\ pc = "raised"
                 /\ raised = c.ret.raised
                 /\ \A k \in 1..Len(packages) : packages[k].dist # c.dist

C7_Witness ==
    /\ pc = "raised"
    /\ Len(calls) = 2
    /\ Cardinality(Matching(calls[1].rel_src)) = 2
    /\ calls[1].ret.raised = NoError
    /\ calls[1].ret.dst # calls[1].ret.src
    /\ Matching(calls[2].rel_src) = {}
    /\ raised.errno = 89

\* C8: for a path whose first segment is not "..", get_mapping returns the
\* path unchanged as source and, as destination, the path itself when the
\* first segment is "bin", else "python/" followed by the path; no remap
\* rule is consulted
C8_ConventionalPaths ==
    \A n \in 1..Len(calls) :
        LET c == calls[n] IN
        FirstSegment(c.rel_src) # PARDIR =>
            /\ c.ret.raised = NoError
            /\ c.ret.src = c.rel_src
            /\ c.ret.dst = IF FirstSegment(c.rel_src) = BIN THEN c.rel_src
                           ELSE PYTHON_SEP \o c.rel_src
            /\ c.ret.tried = 0

C8_Witness ==
    /\ Len(calls) = 3
    /\ remaps # <<>>
    /\ calls[1].rel_src = F_BIN_TOOL /\ calls[1].ret.dst = F_BIN_TOOL
    /\ calls[2].rel_src = F_PKG_INIT /\ calls[2].ret.dst = PYTHON_SEP \o F_PKG_INIT
    /\ calls[3].rel_src = F_RECORD /\ calls[3].ret.dst = PYTHON_SEP \o F_RECORD

\* the part of a path before its last "/", and the part after it
DirName(p) ==
    IF \E k \in 1..Len(p) : p[k] = "/"
    THEN SubSeq(p, 1, (CHOOSE k \in 1..Len(p) :
                           p[k] = "/" /\ \A j \in (k + 1)..Len(p) : p[j] # "/") - 1)
    ELSE <<>>

BaseName(p) == SubSeq(p, Len(DirName(p)) + (IF DirName(p) = <<>> THEN 1 ELSE 2), Len(p))

\* C9: the commands of every package hold the PYTHONPATH command; the PATH
\* command is there and the tool list is recorded only if a file was mapped
\* into bin, the tool list being the names of the files mapped into bin; the
\* files bin/tool, pkg/__init__.py, pkg-1.0.dist-info/RECORD with no remap
\* rule give the tool list ["tool"]
C9_CommandsAndTools ==
    \A n \in 1..Len(packages) :
        LET p == packages[n]
            lines == Split(p.pkg.commands, "\n")
            inbin == SelectSeq(DictValues(p.src_dst_lut), LAMBDA v : DirName(v) = BIN)
        IN  /\ Contains(lines, PYTHONPATH_CMD)
            /\ Contains(lines, PATH_CMD) => inbin # <<>>
            /\ p.pkg.tools # <<>> => inbin # <<>>
            /\ inbin # <<>> => Contains(lines, PATH_CMD)
            /\ p.pkg.tools = [k \in 1..Len(inbin) |-> BaseName(inbin[k])]
            /\ (/\ remaps = <<>>
                /\ DictValues(p.src_dst_lut) =
                       <<F_BIN_TOOL, PYTHON_SEP \o F_PKG_INIT, PYTHON_SEP \o F_RECORD>>)
                  => p.pkg.tools = <<<<"t", "o", "o", "l">>>>

C9_Witness ==
    /\ remaps = <<>>
    /\ Len(packages) = 1
    /\ DictValues(packages[1].src_dst_lut) =
           <<F_BIN_TOOL, PYTHON_SEP \o F_PKG_INIT, PYTHON_SEP \o F_RECORD>>
    /\ packages[1].pkg.tools = <<<<"t", "o", "o", "l">>>>
    /\ Split(packages[1].pkg.commands, "\n") = <<PYTHONPATH_CMD, PATH_CMD>>

\* the list object a call works on, by  extra_args or config.pip_extra_args or []
WorksOn(h, a) ==
    IF a.extra_args = "caller" /\ Len(h.caller) > 0 THEN "caller"
    ELSE IF Len(h.config) > 0 THEN "config"
    ELSE "fresh"

\* a step across which a call of uv_install_package reaches the extraction
Extracts == runs' = runs + 1 /\ pc' # "raised"

\* C10: the only change a call makes to the list it works on is to delete,
\* in place, the first "--no-deps"; the other elements, their order and the
\* other list are left as they were; no later step of the call changes a
\* list; and the next call given the same list object finds it as the
\* earlier call left it
C10_ListFrame ==
    [][/\ ~Extracts => heap' = heap
       /\ Extracts =>
            LET ref == WorksOn(heap, args') IN
            /\ locals'._extra_args = ref
            /\ ref # "caller" => heap'.caller = heap.caller
            /\ ref # "config" => heap'.config = heap.config
            /\ ref # "fresh" =>
                  /\ locals'.entry = heap[ref]
                  /\ heap'[ref] = WithoutFirstNoDeps(heap[ref])
            /\ (prev'.ref = ref /\ ref # "fresh") =>
                  locals'.entry = WithoutFirstNoDeps(prev'.entry)
      ]_vars

C10_Witness ==
    /\ runs = 2
    /\ pc = "returned"
    /\ prev.ref = "caller"
    /\ locals._extra_args = "caller"
    /\ Count(prev.entry, NO_DEPS) = 2
    /\ prev.entry[1] = OPT_VERBOSE
    /\ locals.entry = WithoutFirstNoDeps(prev.entry)
    /\ heap.caller = <<OPT_VERBOSE>>
====
